---- MODULE Spec2Model ----
(***************************************************************************)
(* A model of script.py: the line parser clean_and_combine_data, the       *)
(* vendor classifier get_smart_vendor, and main's control flow around      *)
(* them.  Text is modelled as TLA+ strings, processed character by         *)
(* character the way the Python string methods process it.                 *)
(***************************************************************************)
EXTENDS Integers, Sequences, FiniteSets, TLC

VARIABLES
    pc,            \* position of main / clean_and_combine_data
    lines,         \* the lines of the file the loop has iterated so far
    is_format2,    \* the layout flag of clean_and_combine_data
    transactions,  \* the list of dicts appended by the loop
    diags,         \* the "Warning: Could not parse line ..." printouts
    result,        \* what clean_and_combine_data returned
    master_df,     \* main's dataset
    lastRan,       \* the collaborator main's menu called last
    description,   \* argument of a direct get_smart_vendor call
    vendor,        \* its return value
    vpc            \* position of that call

vars == <<pc, lines, is_format2, transactions, diags, result, master_df,
          lastRan, description, vendor, vpc>>

loadVars == <<pc, lines, is_format2, transactions, diags, result, master_df, lastRan>>
vendorVars == <<description, vendor, vpc>>

\* ------------------------------------------------------------------ bounds

\* Longest file the loop iterates.
MaxLines == 3
\* Number of fragments a classified description is assembled from.
MaxFrags == 2

\* ------------------------------------------------------- Python str methods

Ch(s, i) == SubSeq(s, i, i)

Whitespace == {" ", "\t", "\n", "\r"}

RECURSIVE LStrip(_)
LStrip(s) == IF Len(s) > 0 /\ Ch(s, 1) \in Whitespace THEN LStrip(Tail(s)) ELSE s

RECURSIVE RStrip(_)
RStrip(s) ==
    IF Len(s) > 0 /\ Ch(s, Len(s)) \in Whitespace
    THEN RStrip(SubSeq(s, 1, Len(s) - 1))
    ELSE s

\* str.strip()
Strip(s) == RStrip(LStrip(s))

\* Positions at which sub occurs in s.
Occurrences(s, sub) ==
    {i \in 1..(Len(s) - Len(sub) + 1) : SubSeq(s, i, i + Len(sub) - 1) = sub}

\* sub in s
Contains(s, sub) == Occurrences(s, sub) # {}

Min(S) == CHOOSE x \in S : \A y \in S : x <= y

\* str.split(',')
RECURSIVE Split(_)
Split(s) ==
    LET at == Occurrences(s, ",") IN
    IF at = {} THEN <<s>>
    ELSE LET i == Min(at) IN <<SubSeq(s, 1, i - 1)>> \o Split(SubSeq(s, i + 1, Len(s)))

LowerLetters == "abcdefghijklmnopqrstuvwxyz"
UpperLetters == "ABCDEFGHIJKLMNOPQRSTUVWXYZ"

IsLower(c) == Contains(LowerLetters, c) /\ Len(c) = 1
IsUpper(c) == Contains(UpperLetters, c) /\ Len(c) = 1
IsCased(c) == IsLower(c) \/ IsUpper(c)

UpperCh(c) == IF IsLower(c) THEN Ch(UpperLetters, Min(Occurrences(LowerLetters, c))) ELSE c
LowerCh(c) == IF IsUpper(c) THEN Ch(LowerLetters, Min(Occurrences(UpperLetters, c))) ELSE c

\* str.upper()
RECURSIVE Upper(_)
Upper(s) == IF Len(s) = 0 THEN "" ELSE UpperCh(Ch(s, 1)) \o Upper(Tail(s))

\* str.lower()
RECURSIVE Lower(_)
Lower(s) == IF Len(s) = 0 THEN "" ELSE LowerCh(Ch(s, 1)) \o Lower(Tail(s))

\* str.title(): a cased character is upper-cased when the character before it
\* is uncased (or it is the first), lower-cased otherwise.
RECURSIVE TitleFrom(_, _)
TitleFrom(s, prevCased) ==
    IF Len(s) = 0 THEN ""
    ELSE LET c == Ch(s, 1) IN
         (IF prevCased THEN LowerCh(c) ELSE UpperCh(c)) \o TitleFrom(Tail(s), IsCased(c))

Title(s) == TitleFrom(s, FALSE)

\* ------------------------------------------------------- numeric parsing

DigitChars == "0123456789"
IsDigit(c) == Contains(DigitChars, c) /\ Len(c) = 1
DigitVal(c) == Min(Occurrences(DigitChars, c)) - 1
AllDigits(s) == \A i \in 1..Len(s) : IsDigit(Ch(s, i))

RECURSIVE DigitsVal(_)
DigitsVal(s) ==
    IF Len(s) = 0 THEN 0
    ELSE 10 * DigitsVal(SubSeq(s, 1, Len(s) - 1)) + DigitVal(Ch(s, Len(s)))

RECURSIVE Pow10(_)
Pow10(n) == IF n = 0 THEN 1 ELSE 10 * Pow10(n - 1)

\* A float is num/den (den a power of ten, lowest such), an infinity, or NaN.
RECURSIVE Reduce(_, _)
Reduce(n, d) == IF d > 1 /\ n % 10 = 0 THEN Reduce(n \div 10, d \div 10) ELSE [kind |-> "num", num |-> n, den |-> d]

NaN == [kind |-> "nan", num |-> 0, den |-> 1]
Inf(sign) == [kind |-> "inf", num |-> sign, den |-> 1]
ValueError == [kind |-> "ValueError", num |-> 0, den |-> 1]

Neg(x) == [x EXCEPT !.num = 0 - x.num]
IsZero(x) == x.kind = "num" /\ x.num = 0

\* The unsigned body of a float literal: digits with at most one point and at
\* least one digit, or inf / infinity / nan in any case.  (Exponent and
\* underscore forms are accepted by Python too; no field of Lines uses one.)
Unsigned(s) ==
    LET dots == Occurrences(s, ".") IN
    IF Lower(s) \in {"inf", "infinity"} THEN Inf(1)
    ELSE IF Lower(s) = "nan" THEN NaN
    ELSE IF dots = {} THEN
        IF Len(s) > 0 /\ AllDigits(s) THEN Reduce(DigitsVal(s), 1) ELSE ValueError
    ELSE LET i == Min(dots)
             ip == SubSeq(s, 1, i - 1)
             fp == SubSeq(s, i + 1, Len(s))
         IN IF AllDigits(ip) /\ AllDigits(fp) /\ Len(ip) + Len(fp) > 0
            THEN Reduce(DigitsVal(ip \o fp), Pow10(Len(fp)))
            ELSE ValueError

\* float(s): surrounding whitespace ignored, optional sign.
Float(s) ==
    LET t == Strip(s) IN
    IF Len(t) > 0 /\ Ch(t, 1) = "-" THEN
        LET u == Unsigned(Tail(t)) IN IF u.kind = "ValueError" THEN u ELSE Neg(u)
    ELSE IF Len(t) > 0 /\ Ch(t, 1) = "+" THEN Unsigned(Tail(t))
    ELSE Unsigned(t)

\* pd.to_numeric(s, errors='coerce'): the number, NaN when s is no number.
ToNumeric(s) == LET x == Float(s) IN IF x.kind = "ValueError" THEN NaN ELSE x

\* pd.notna
NotNa(x) == x.kind # "nan"

\* ---------------------------------------------------------- date parsing

NaT == [kind |-> "NaT", y |-> 0, m |-> 0, d |-> 0]
DateError == [kind |-> "DateParseError", y |-> 0, m |-> 0, d |-> 0]

IsLeap(y) == (y % 4 = 0 /\ y % 100 # 0) \/ y % 400 = 0
DaysIn(y, m) ==
    IF m = 2 THEN (IF IsLeap(y) THEN 29 ELSE 28)
    ELSE IF m \in {4, 6, 9, 11} THEN 30 ELSE 31

\* pd.to_datetime(s) of one string: NaT for the empty string and the null
\* markers, the Timestamp of an ISO date YYYY-MM-DD, and an exception for text
\* that names no date.  (Other date formats parse as well; no field 0 of Lines
\* uses one.)
ToDatetime(s) ==
    IF s \in {"", "nan", "NaN", "NaT"} THEN NaT
    ELSE IF /\ Len(s) = 10
            /\ Ch(s, 5) = "-" /\ Ch(s, 8) = "-"
            /\ AllDigits(SubSeq(s, 1, 4)) /\ AllDigits(SubSeq(s, 6, 7))
            /\ AllDigits(SubSeq(s, 9, 10))
    THEN LET y == DigitsVal(SubSeq(s, 1, 4))
             m == DigitsVal(SubSeq(s, 6, 7))
             d == DigitsVal(SubSeq(s, 9, 10))
         IN IF y >= 1 /\ m \in 1..12 /\ d \in 1..DaysIn(y, m)
            THEN [kind |-> "Timestamp", y |-> y, m |-> m, d |-> d]
            ELSE DateError
    ELSE DateError

\* ------------------------------------------------------------ input file

\* The lines a file is made of (as readlines() returns them).
Lines == {
    "\n",
    "Transaction Date,Posted Date,Card No.,Description,Category,Debit,Credit\n",
    "2024-01-05,x,x,AMAZON MKTPLACE,Shopping,45.99,,\n",
    "2024-01-07,x,x,PAYMENT,,,100.00\n",
    "2024-01-08,x,x,TESCO,Food,5.00,3.00\n",
    "2024-01-09,x,x,TESCO,Food,,\n",
    "2024-01-09,x,x,EBAY,Shopping,0,3.00,refund\n",
    "2024-01-10,x,x,123,Shopping,45.99,\n",
    "2024-01-13,x,x,SAFEWAY,Food,nan,4.00\n",
    "not-a-date,x,x,TESCO,Food,5.00,\n",
    ",x,x,TESCO,Food,5.00,\n",
    "2024-01-11,x,x,TESCO,Food,5.00\n",
    "2024-01-06,x,UBER TRIP,12.50,Travel\n",
    "2024-01-06,x,UBER,0.00,Travel\n",
    "2024-01-06,x,SQ *,7.25,\n",
    "2024-01-06,x,UBER,nan,Travel\n",
    "2024-01-06,x,UBER,12.50\n",
    "2024-01-06,x,UBER\n",
    "2024-01-12,x,STARBUCKS,-3.10,Food,extra\n" }

\* ------------------------------------------- clean_and_combine_data: a line

\* parts[k], Python's 0-based index.
Part(parts, k) == parts[k + 1]

\* "if not line.strip() or 'Transaction Date' in line: continue"
Skipped(line) == Strip(line) = "" \/ Contains(line, "Transaction Date")

\* "parts = line.strip().split(',')"
PartsOf(line) == Split(Strip(line))

\* A faulty variant of ProbeHits: the field count is not looked at.
ProbeHitsAnyCount(parts) ==
    /\ Len(parts) > 3
    /\ Float(Part(parts, 3)).kind # "ValueError"

\* The probe "float(parts[3])" succeeds (no IndexError, no ValueError) and
\* "len(parts) <= 6".
ProbeHits(parts) ==
    /\ Len(parts) > 3
    /\ Float(Part(parts, 3)).kind # "ValueError"
    /\ Len(parts) <= 6

\* A faulty variant of Detect: the flag follows the current line alone.
DetectPerLine(parts, flag) == ProbeHits(parts)

\* The value of is_format2 after the detection block, given its value before.
Detect(parts, flag) == IF ProbeHits(parts) THEN TRUE ELSE flag

\* A faulty variant of DualAmount: the credit is looked at first.
DualAmountCreditFirst(debit, credit) ==
    IF NotNa(credit) THEN Neg(credit)
    ELSE IF NotNa(debit) THEN debit
    ELSE Reduce(0, 1)

\* "amount = debit if pd.notna(debit) else -credit if pd.notna(credit) else 0"
DualAmount(debit, credit) ==
    IF NotNa(debit) THEN debit
    ELSE IF NotNa(credit) THEN Neg(credit)
    ELSE Reduce(0, 1)

\* The dict of the "if not is_format2" branch.
DualRecord(parts) ==
    [date     |-> ToDatetime(Part(parts, 0)),
     desc     |-> Part(parts, 3),
     category |-> Part(parts, 4),
     amount   |-> DualAmount(ToNumeric(Part(parts, 5)), ToNumeric(Part(parts, 6))),
     notes    |-> IF Len(parts) > 7 THEN Part(parts, 7) ELSE ""]

\* That branch raises: parts[5] or parts[6] is out of range, or the date is
\* no date.
DualRaises(parts) ==
    \/ Len(parts) <= 6
    \/ ToDatetime(Part(parts, 0)).kind = "DateParseError"

\* The dict of the else branch.
SingleRecord(parts) ==
    [date     |-> ToDatetime(Part(parts, 0)),
     desc     |-> Part(parts, 2),
     category |-> Part(parts, 4),
     amount   |-> Float(Part(parts, 3)),
     notes    |-> ""]

\* That branch raises: parts[2], parts[3] or parts[4] is out of range, the
\* date is no date, or float(parts[3]) fails.
SingleRaises(parts) ==
    \/ Len(parts) <= 4
    \/ ToDatetime(Part(parts, 0)).kind = "DateParseError"
    \/ Float(Part(parts, 3)).kind = "ValueError"

\* The inner try block under the flag's value: TRUE when it ends in
\* "except Exception".
Raises(parts, flag) == IF flag THEN SingleRaises(parts) ELSE DualRaises(parts)

RecordOf(parts, flag) == IF flag THEN SingleRecord(parts) ELSE DualRecord(parts)

\* A faulty variant of Warning: the enumerate() index is printed as it is.
WarningZeroBased(i, line) == [lineno |-> i, text |-> Strip(line)]

\* print(f"Warning: Could not parse line {i+1}: {line.strip()}"), i the
\* enumerate() index of the line.
Warning(i, line) == [lineno |-> i + 1, text |-> Strip(line)]

NoRecord == [date |-> NaT, desc |-> "", category |-> "", amount |-> NaN, notes |-> ""]

\* The body of the for loop on one line, entered with is_format2 = flag: the
\* line is skipped, or the flag is settled and the line ends in the except
\* branch ("warn") or in an append.
Body(line, flag) ==
    IF Skipped(line)
    THEN [kind |-> "skip", flag |-> flag, record |-> NoRecord]
    ELSE LET parts == PartsOf(line)
             now == Detect(parts, flag)
         IN IF Raises(parts, now)
            THEN [kind |-> "warn", flag |-> now, record |-> NoRecord]
            ELSE [kind |-> "append", flag |-> now, record |-> RecordOf(parts, now)]

\* Body and Warning, tabulated over the lines of the model.
BodyTable == [line \in Lines |-> [flag \in BOOLEAN |-> Body(line, flag)]]
WarningTable == [line \in Lines |-> [i \in 0..MaxLines |-> Warning(i, line)]]

\* The for loop as a whole over the first k lines of ls: the flag and the list
\* it leaves.
RECURSIVE RunLoop(_, _)
RunLoop(ls, k) ==
    IF k = 0 THEN [flag |-> FALSE, txs |-> <<>>]
    ELSE LET prev == RunLoop(ls, k - 1)
             body == BodyTable[ls[k]][prev.flag]
         IN [flag |-> body.flag,
             txs  |-> IF body.kind = "append" THEN Append(prev.txs, body.record)
                      ELSE prev.txs]

\* ------------------------------------- clean_and_combine_data: the post-pass

\* df.dropna(subset=['Transaction Date', 'Amount'])
DropNa(rows) == SelectSeq(rows, LAMBDA r : r.date.kind # "NaT" /\ NotNa(r.amount))

\* A faulty variant of NonZero: nothing is filtered.
NonZeroKeepsAll(rows) == rows

\* df[df['Amount'] != 0]
NonZero(rows) == SelectSeq(rows, LAMBDA r : ~IsZero(r.amount))

\* pd.isna of a Category cell: every cell is a str taken from parts, and no
\* str, the empty one included, is a missing value.
CategoryIsNa(c) == FALSE

\* df['Category'].fillna('Uncategorized')
FillCategory(rows) ==
    [k \in 1..Len(rows) |->
        IF CategoryIsNa(rows[k].category)
        THEN [rows[k] EXCEPT !.category = "Uncategorized"]
        ELSE rows[k]]

PostPass(rows) == FillCategory(NonZero(DropNa(rows)))

None == [kind |-> "None", rows |-> <<>>]
Pending == [kind |-> "pending", rows |-> <<>>]
DataFrame(rows) == [kind |-> "DataFrame", rows |-> rows]

\* Lines 66-75: what the function returns once the loop is over.
Returned(txs) == IF txs = <<>> THEN None ELSE DataFrame(PostPass(txs))

\* --------------------------------------------------------- get_smart_vendor

\* The three shapes of pattern the rule table uses: a literal, "a.*b", and
\* "a(.*)".
Lit(a) == [kind |-> "lit", a |-> a, b |-> ""]
Gap(a, b) == [kind |-> "gap", a |-> a, b |-> b]
Cap(a) == [kind |-> "cap", a |-> a, b |-> ""]

\* vendor_rules, in the dict's insertion order; a pattern is the sequence of
\* its "|" alternatives.
vendor_rules == <<
    [pattern |-> <<Lit("AMAZON"), Lit("AMZN")>>, name |-> "Amazon"],
    [pattern |-> <<Lit("TESCO")>>, name |-> "Tesco"],
    [pattern |-> <<Lit("EBAY")>>, name |-> "eBay"],
    [pattern |-> <<Gap("GOOGLE", "YOUTUBE")>>, name |-> "Google YouTube Premium"],
    [pattern |-> <<Lit("UBER")>>, name |-> "Uber"],
    [pattern |-> <<Lit("STARBUCKS")>>, name |-> "Starbucks"],
    [pattern |-> <<Lit("PANDA EXPRESS")>>, name |-> "Panda Express"],
    [pattern |-> <<Lit("SAFEWAY")>>, name |-> "Safeway"],
    [pattern |-> <<Lit("CIRCUIT GO")>>, name |-> "Circuit Laundry"],
    [pattern |-> <<Cap("SUMUP ** ")>>, name |-> "\\1"],
    [pattern |-> <<Cap("SQ *")>>, name |-> "\\1"],
    [pattern |-> <<Lit("TIM HORTONS")>>, name |-> "Tim Hortons"],
    [pattern |-> <<Lit("UNIVERSITY COLLEGE"), Lit("STEPHENSON COLLEGE"),
                   Lit("DURHAM STUDENTS")>>, name |-> "Durham University"],
    [pattern |-> <<Gap("CAPITAL ONE", "PYMT")>>, name |-> "Capital One Payment"],
    [pattern |-> <<Lit("INTERNET PAYMENT"), Lit("DIRECTPAY")>>, name |-> "Bank Payment"],
    [pattern |-> <<Lit("CASH BACK"), Lit("CASHBACK"), Lit("REWARD")>>,
     name |-> "Cash Back / Rewards"] >>

\* s from position i up to the end of its line: what ".*" can consume.
RestOfLine(s, i) ==
    LET rest == SubSeq(s, i, Len(s))
        nl == Occurrences(rest, "\n")
    IN IF nl = {} THEN rest ELSE SubSeq(rest, 1, Min(nl) - 1)

\* One alternative matches s starting at position i.
AltMatchesAt(alt, s, i) ==
    /\ i + Len(alt.a) - 1 <= Len(s)
    /\ SubSeq(s, i, i + Len(alt.a) - 1) = alt.a
    /\ alt.kind = "gap" => Contains(RestOfLine(s, i + Len(alt.a)), alt.b)

\* re.search(pattern, s): the leftmost match, of the first alternative that
\* matches there; group1 is what "(.*)" consumed.
Search(pattern, s) ==
    LET hits == {i \in 1..(Len(s) + 1) :
                    \E k \in 1..Len(pattern) : AltMatchesAt(pattern[k], s, i)}
    IN IF hits = {} THEN [found |-> FALSE, group1 |-> ""]
       ELSE LET i == Min(hits)
                k == Min({j \in 1..Len(pattern) : AltMatchesAt(pattern[j], s, i)})
                alt == pattern[k]
            IN [found  |-> TRUE,
                group1 |-> IF alt.kind = "cap" THEN RestOfLine(s, i + Len(alt.a)) ELSE ""]

\* The for loop over vendor_rules.items() from rule k on, then the fallback.
RECURSIVE ScanRules(_, _)
ScanRules(d, k) ==
    IF k > Len(vendor_rules) THEN Title(d)
    ELSE LET rule == vendor_rules[k]
             match == Search(rule.pattern, d)
         IN IF match.found
            THEN (IF Contains(rule.name, "\\")
                  THEN Title(Strip(match.group1))
                  ELSE rule.name)
            ELSE ScanRules(d, k + 1)

\* A faulty variant of get_smart_vendor: the description is not upper-cased.
get_smart_vendor_as_typed(desc) == ScanRules(desc, 1)

get_smart_vendor(desc) == ScanRules(Upper(desc), 1)

\* master_df['Vendor'] = master_df['Description'].apply(get_smart_vendor)
WithVendor(rows) ==
    [k \in 1..Len(rows) |->
        [date |-> rows[k].date, desc |-> rows[k].desc, category |-> rows[k].category,
         amount |-> rows[k].amount, notes |-> rows[k].notes,
         vendor |-> get_smart_vendor(rows[k].desc)]]

\* Descriptions handed to get_smart_vendor: up to MaxFrags of these fragments
\* in a row, and the examples.
Fragments == {
    "AMAZON", "amzn", "Tesco", "EBAY", "GOOGLE", "YOUTUBE", "UBER EATS",
    "STARBUCKS", "Panda Express", "SAFEWAY", "CIRCUIT GO", "SUMUP ** ", "SQ *",
    "TIM HORTONS", "DURHAM STUDENTS", "CAPITAL ONE", "PYMT", "DIRECTPAY",
    "CASHBACK", " ", "joes coffee", "123", "\n", "o'neill" }

Examples == {
    "AMAZON PRIME VIDEO", "SUMUP ** UBER EATS", "SUMUP ** JOES COFFEE SHOP",
    "RANDOM UNKNOWN MERCHANT 123", "Tesco", "2024-01-05" }

RECURSIVE Concats(_)
Concats(n) ==
    IF n = 0 THEN {""}
    ELSE LET shorter == Concats(n - 1)
         IN shorter \cup {s \o f : s \in shorter, f \in Fragments}

Descriptions == Concats(MaxFrags) \cup Examples

\* ------------------------------------------------------------------- state

Init ==
    /\ pc = "start"
    /\ lines = <<>>
    /\ is_format2 = FALSE
    /\ transactions = <<>>
    /\ diags = <<>>
    /\ result = Pending
    /\ master_df = Pending
    /\ lastRan = "none"
    /\ description = ""
    /\ vendor = ""
    /\ vpc = "idle"

\* main calls clean_and_combine_data, which opens and reads the file: the
\* open succeeds, raises FileNotFoundError, or raises something else; either
\* handler returns None.
OpenFile ==
    /\ pc = "start"
    /\ \E outcome \in {"ok", "FileNotFoundError", "Exception"} :
        IF outcome = "ok"
        THEN pc' = "loop" /\ UNCHANGED result
        ELSE pc' = "returned" /\ result' = None
    /\ UNCHANGED <<lines, is_format2, transactions, diags, master_df, lastRan, vendorVars>>

\* One iteration of "for i, line in enumerate(lines)".
LoopLine ==
    /\ pc = "loop"
    /\ Len(lines) < MaxLines
    /\ \E line \in Lines :
        LET i == Len(lines)
            body == BodyTable[line][is_format2]
        IN /\ lines' = Append(lines, line)
           /\ is_format2' = body.flag
           /\ transactions' = IF body.kind = "append"
                              THEN Append(transactions, body.record)
                              ELSE transactions
           /\ diags' = IF body.kind = "warn"
                       THEN Append(diags, WarningTable[line][i])
                       ELSE diags
    /\ UNCHANGED <<pc, result, master_df, lastRan, vendorVars>>

\* The loop is over: the emptiness test, the post-pass, the return.
EndOfLoop ==
    /\ pc = "loop"
    /\ result' = Returned(transactions)
    /\ pc' = "returned"
    /\ UNCHANGED <<lines, is_format2, transactions, diags, master_df, lastRan, vendorVars>>

\* main, lines 283-287: the function's frame is gone, its result is bound to
\* master_df, and None ends main.
MainCheck ==
    /\ pc = "returned"
    /\ master_df' = result
    /\ pc' = IF result.kind = "None" THEN "exit" ELSE "classify"
    /\ lines' = <<>>
    /\ is_format2' = FALSE
    /\ transactions' = <<>>
    /\ diags' = <<>>
    /\ result' = Pending
    /\ UNCHANGED <<lastRan, vendorVars>>

\* main, line 289.
ApplyVendor ==
    /\ pc = "classify"
    /\ master_df' = DataFrame(WithVendor(master_df.rows))
    /\ pc' = "menu"
    /\ UNCHANGED <<lines, is_format2, transactions, diags, result, lastRan, vendorVars>>

\* The menu's dispatch on the stripped input.
Collaborator(choice) ==
    CASE choice = "1" -> "generate_summary_report"
      [] choice = "2" -> "export_grouped_csv"
      [] choice = "3" -> "plot_spending_by_category"
      [] choice = "4" -> "interactive_search"
      [] choice = "5" -> "generate_full_vendor_report"
      [] choice = "6" -> "plot_monthly_spending"
      [] choice = "7" -> "check_budgets"
      [] OTHER -> "none"

Inputs == {"1", "2", "3", "4", "5", "6", "7", "8", " 8 ", "9", ""}

\* One turn of main's "while True": a collaborator is called on master_df
\* (and returns, or raises and ends main), "8" leaves, anything else prints
\* the invalid-choice notice.
Menu ==
    /\ pc = "menu"
    /\ \E typed \in Inputs, returns \in BOOLEAN :
        LET choice == Strip(typed) IN
        IF Collaborator(choice) # "none"
        THEN /\ lastRan' = Collaborator(choice)
             /\ pc' = IF returns THEN "menu" ELSE "exit"
        ELSE /\ pc' = IF choice = "8" THEN "exit" ELSE "menu"
             /\ UNCHANGED lastRan
    /\ UNCHANGED <<lines, is_format2, transactions, diags, result, master_df, vendorVars>>

Next == OpenFile \/ LoopLine \/ EndOfLoop \/ MainCheck \/ ApplyVendor \/ Menu

Spec == Init /\ [][Next]_vars

\* A direct call of get_smart_vendor on one description.
InitVendor ==
    /\ pc = "start"
    /\ lines = <<>>
    /\ is_format2 = FALSE
    /\ transactions = <<>>
    /\ diags = <<>>
    /\ result = Pending
    /\ master_df = Pending
    /\ lastRan = "none"
    /\ description \in Descriptions
    /\ vendor = ""
    /\ vpc = "call"

Classify ==
    /\ vpc = "call"
    /\ vendor' = get_smart_vendor(description)
    /\ vpc' = "done"
    /\ UNCHANGED <<description, loadVars>>

NextVendor == Classify

SpecVendor == InitVendor /\ [][NextVendor]_vars

\* ------------------------------------------------- the layouts, as specified

\* What the specification says of one line, tabulated over Lines: its fields,
\* whether it is a data line, and its reading under either layout.
Fields == [line \in Lines |-> PartsOf(line)]
IsData == [line \in Lines |-> ~(Strip(line) = "" \/ Contains(line, "Transaction Date"))]
RawText == [line \in Lines |-> Strip(line)]

\* Field 3 is a number and there are at most 6 fields.
Trips ==
    [line \in Lines |->
        /\ IsData[line]
        /\ Len(Fields[line]) >= 4
        /\ Len(Fields[line]) <= 6
        /\ Float(Fields[line][4]).kind # "ValueError"]

DateOk == [line \in Lines |-> ToDatetime(Fields[line][1]).kind = "Timestamp"]

\* Single-amount layout: date = field 0, description = field 2, amount =
\* field 3, category = field 4.
SingleOk ==
    [line \in Lines |->
        /\ Len(Fields[line]) >= 5
        /\ ToDatetime(Fields[line][1]).kind # "DateParseError"
        /\ Float(Fields[line][4]).kind # "ValueError"]

SingleView ==
    [line \in Lines |->
        IF SingleOk[line]
        THEN [date |-> ToDatetime(Fields[line][1]), desc |-> Fields[line][3],
              category |-> Fields[line][5], amount |-> Float(Fields[line][4]),
              notes |-> ""]
        ELSE NoRecord]

\* A field is a number proper (not empty, not text, not NaN).
IsNumber(s) == Float(s).kind \in {"num", "inf"}

\* Dual-column layout: debit = field 5, credit = field 6.
DualOk ==
    [line \in Lines |->
        /\ Len(Fields[line]) >= 7
        /\ ToDatetime(Fields[line][1]).kind # "DateParseError"]

DualAmountSpec ==
    [line \in Lines |->
        IF ~DualOk[line] THEN NaN
        ELSE LET debit == Fields[line][6]
                 credit == Fields[line][7]
             IN IF IsNumber(debit) THEN Float(debit)
                ELSE IF IsNumber(credit) THEN Neg(Float(credit))
                ELSE [kind |-> "num", num |-> 0, den |-> 1]]

DualView ==
    [line \in Lines |->
        IF DualOk[line]
        THEN [date |-> ToDatetime(Fields[line][1]), desc |-> Fields[line][4],
              category |-> Fields[line][5], amount |-> DualAmountSpec[line],
              notes |-> IF Len(Fields[line]) >= 8 THEN Fields[line][8] ELSE ""]
        ELSE NoRecord]

Last(seq) == seq[Len(seq)]

\* The step is one iteration of the loop, on a data line.
DataLineStep == pc = "loop" /\ Len(lines') = Len(lines) + 1 /\ IsData[Last(lines')]

\* ---------------------------------------------------------------- claims

\* C1: once the flag is set it stays set for the rest of the run, and every
\* later data line, dual-shaped ones included, is read under the single-amount
\* layout: it yields the single-amount record, or no record.
C1_StickyLayout ==
    [][(pc = "loop" /\ is_format2) =>
        /\ is_format2'
        /\ DataLineStep =>
            LET line == Last(lines') IN
            IF SingleOk[line]
            THEN transactions' = Append(transactions, SingleView[line])
            ELSE transactions' = transactions /\ Len(diags') = Len(diags) + 1]_vars

\* C1 witness: the flag was set by line 1 and a dual-shaped line 2 (7 fields)
\* produced a record whose description is its field 2.
C1_Witness ==
    /\ pc = "loop"
    /\ is_format2
    /\ Len(lines) = 2
    /\ Trips[lines[1]]
    /\ Len(Fields[lines[2]]) >= 7
    /\ Len(transactions) = 2
    /\ transactions[2].desc = Fields[lines[2]][3]

\* C2: a record appended under the dual-column layout has amount = debit
\* when the debit is a number, else -credit when the credit is a number,
\* else 0.
C2_DualAmount ==
    [][(DataLineStep /\ ~is_format2' /\ Len(transactions') = Len(transactions) + 1) =>
        Last(transactions').amount = DualAmountSpec[Last(lines')]]_vars

\* C2 witness: a dual-column line with both debit and credit numeric has
\* produced a record carrying the debit.
C2_Witness ==
    /\ pc = "loop"
    /\ ~is_format2
    /\ Len(lines) = 1
    /\ Len(transactions) = 1
    /\ Len(Fields[lines[1]]) >= 7
    /\ IsNumber(Fields[lines[1]][6])
    /\ IsNumber(Fields[lines[1]][7])
    /\ transactions[1].amount = Float(Fields[lines[1]][6])

\* C3 (as claimed): get_smart_vendor never returns the empty string.
C3_NeverEmpty == vpc = "done" => vendor # ""

\* C4 (as claimed): a returned dataset is never empty.
C4_NonEmptyOrNone == result.kind = "DataFrame" => Len(result.rows) > 0

\* C5 (as claimed): no returned record has an empty category; an empty source
\* category has become "Uncategorized".
C5_CategoryDefaulted ==
    result.kind = "DataFrame" =>
        \A k \in 1..Len(result.rows) : result.rows[k].category # ""

\* C6: the returned dataset holds no record with amount 0 and no record with
\* an unparseable date: each of its records is the reading, under one of the
\* layouts, of a data line whose date parses.
C6_NoZeroNoBadDate ==
    /\ result.kind = "DataFrame" =>
        \A k \in 1..Len(result.rows) :
            LET r == result.rows[k] IN
            /\ ~(r.amount.kind = "num" /\ r.amount.num = 0)
            /\ r.date.kind = "Timestamp"
            /\ \E j \in 1..Len(lines) :
                /\ IsData[lines[j]]
                /\ DateOk[lines[j]]
                /\ r \in {SingleView[lines[j]], DualView[lines[j]]}
    /\ master_df.kind = "DataFrame" =>
        \A k \in 1..Len(master_df.rows) :
            /\ master_df.rows[k].amount.num # 0 \/ master_df.rows[k].amount.kind # "num"
            /\ master_df.rows[k].date.kind = "Timestamp"

\* C6 witness: the loop appended a dual-column record with neither debit nor
\* credit (amount 0) and a record with an empty date, and the returned dataset
\* holds neither.
C6_Witness ==
    /\ pc = "returned"
    /\ result.kind = "DataFrame"
    /\ Len(result.rows) = 1
    /\ Len(transactions) = 3
    /\ \E k \in 1..3 : transactions[k].amount = [kind |-> "num", num |-> 0, den |-> 1]
    /\ \E k \in 1..3 : transactions[k].date.kind = "NaT"

\* The labels of rules 1..16 in priority order, "" for the capture rules.
SpecLabels == <<
    "Amazon", "Tesco", "eBay", "Google YouTube Premium", "Uber", "Starbucks",
    "Panda Express", "Safeway", "Circuit Laundry", "", "", "Tim Hortons",
    "Durham University", "Capital One Payment", "Bank Payment",
    "Cash Back / Rewards" >>

\* C7: the result is that of the first rule, in priority order, found in the
\* upper-cased description: its label verbatim, or for rules 10 and 11 the
\* captured text trimmed and title-cased; with no rule found, the upper-cased
\* description title-cased.
C7_FirstMatchWins ==
    vpc = "done" =>
        LET u == Upper(description)
            found == {k \in 1..Len(SpecLabels) : Search(vendor_rules[k].pattern, u).found}
        IN /\ IF found = {} THEN vendor = Title(u)
              ELSE LET k == Min(found) IN
                   IF k \in {10, 11}
                   THEN vendor = Title(Strip(Search(vendor_rules[k].pattern, u).group1))
                   ELSE vendor = SpecLabels[k]
           /\ description = "SUMUP ** UBER EATS" => vendor = "Uber"
           /\ description = "AMAZON PRIME VIDEO" => vendor = "Amazon"
           /\ description = "SUMUP ** JOES COFFEE SHOP" => vendor = "Joes Coffee Shop"
           /\ description = "RANDOM UNKNOWN MERCHANT 123" => vendor = "Random Unknown Merchant 123"

\* C7 witness: a description found by the literal rule 5 and the capture rule
\* 10 got rule 5's label.
C7_Witness == vpc = "done" /\ description = "SUMUP ** UBER EATS" /\ vendor = "Uber"

\* The file ls with the lines numbered in D taken out.
Without(ls, D) ==
    LET keep == SelectSeq([k \in 1..Len(ls) |-> k], LAMBDA k : k \notin D)
    IN [j \in 1..Len(keep) |-> ls[keep[j]]]

\* The line numbers the diagnostics name.
Discarded == {diags[k].lineno : k \in 1..Len(diags)}

\* Some data line among the first k of ls has numeric field 3 and at most 6
\* fields.
TrippedBy(ls, k) == \E j \in 1..k : Trips[ls[j]]

\* Every data line has exactly one outcome, and each diagnostic carries the
\* 1-based number and the text of a data line, in file order.
OneOutcomePerLine ==
    /\ Len(transactions) + Len(diags) = Cardinality({k \in 1..Len(lines) : IsData[lines[k]]})
    /\ \A k \in 1..Len(diags) :
        /\ diags[k].lineno \in 1..Len(lines)
        /\ IsData[lines[diags[k].lineno]]
        /\ diags[k].text = RawText[lines[diags[k].lineno]]
        /\ k > 1 => diags[k - 1].lineno < diags[k].lineno

\* C8 (as claimed): one outcome per data line, the diagnostic's number and
\* text, a load that fails only with no record, and discarded lines without
\* any effect on the other lines' records: the file without them yields the
\* same records.
C8_DiscardIsLocal ==
    /\ OneOutcomePerLine
    /\ result.kind = "None" => transactions = <<>>
    /\ LET kept == Without(lines, Discarded)
       IN transactions = RunLoop(kept, Len(kept)).txs

\* C8 (amended): the same, except that a discarded line which itself switches
\* the layout flag does change how later lines are read: the file without the
\* other discarded lines yields the same records.
C8_DiscardIsLocalButForFlag ==
    /\ OneOutcomePerLine
    /\ result.kind = "None" => transactions = <<>>
    /\ LET inert == {k \in Discarded : ~(Trips[lines[k]] /\ ~TrippedBy(lines, k - 1))}
           kept == Without(lines, inert)
       IN transactions = RunLoop(kept, Len(kept)).txs

\* C8 witness: after a skipped line, line 2 was discarded with its diagnostic
\* and line 3 still produced a record.
C8_Witness ==
    /\ pc = "loop"
    /\ Len(lines) = 3
    /\ ~IsData[lines[1]]
    /\ diags = <<[lineno |-> 2, text |-> RawText[lines[2]]]>>
    /\ ~Trips[lines[2]]
    /\ Len(transactions) = 1

\* C9 (as claimed): after a failed load, unreadable source or no surviving
\* transaction, no collaborator is ever called.
C9_FailureHalts ==
    (master_df.kind = "None" \/ (master_df.kind = "DataFrame" /\ master_df.rows = <<>>))
        => lastRan = "none"

\* The records of the first k lines of ls when line j is read under the
\* single-amount layout exactly if a line up to j trips the flag.
RECURSIVE LayoutRecords(_, _)
LayoutRecords(ls, k) ==
    IF k = 0 THEN <<>>
    ELSE LET prev == LayoutRecords(ls, k - 1)
             line == ls[k]
         IN IF ~IsData[line] THEN prev
            ELSE IF TrippedBy(ls, k)
                 THEN (IF SingleOk[line] THEN Append(prev, SingleView[line]) ELSE prev)
                 ELSE (IF DualOk[line] THEN Append(prev, DualView[line]) ELSE prev)

\* C10: the flag is set exactly if some data line read so far has numeric
\* field 3 and 4 to 6 fields, and every data line is read under the layout
\* this gives for it, a discarded tripping line counting like any other.
C10_LayoutSwitch ==
    /\ is_format2 = TrippedBy(lines, Len(lines))
    /\ transactions = LayoutRecords(lines, Len(lines))

\* C10 witness: line 1 tripped the flag and was itself discarded; line 2, of
\* dual-column shape, was read under the single-amount layout.
C10_Witness ==
    /\ pc = "loop"
    /\ Len(lines) = 2
    /\ Trips[lines[1]]
    /\ diags = <<[lineno |-> 1, text |-> RawText[lines[1]]]>>
    /\ Len(Fields[lines[2]]) >= 7
    /\ transactions = <<SingleView[lines[2]]>>
    /\ is_format2

====
